---- MODULE Spec2Model ----
(***************************************************************************)
(* Model of the trend-indicator kernels of openalgo/indicators/trend.py.   *)
(*                                                                         *)
(* A caller holds input series, calls one kernel's calculate, receives the *)
(* result (or an error) and discards it.  Every kernel is a pure function  *)
(* of its inputs, translated loop by loop from the source.                 *)
(*                                                                         *)
(* Numbers: a float is modelled as an exact rational <<num, den>> with     *)
(* den > 0 in lowest terms, or as NaN == <<0, 0>>.  NaN propagates through *)
(* arithmetic and makes every comparison false, as in IEEE 754.  Rounding  *)
(* of float64 is not modelled: on the small integer samples used here the  *)
(* sums and products are exact in float64 as well.                         *)
(*                                                                         *)
(* Arrays are functions on 0..n-1, so that indices read as in the source.  *)
(***************************************************************************)
EXTENDS Integers, Sequences, FiniteSets, TLC

VARIABLES kind, data, volume, high, low, close, pc, kernel, args, err, out, loc

vars == <<kind, data, volume, high, low, close, pc, kernel, args, err, out, loc>>

inputs == <<kind, data, volume, high, low, close>>

-----------------------------------------------------------------------------
(* Bounds of the model *)

MaxLen == 4

MaxBars == 3

MaxDisp == 2

DataVals == {0, 1, 3}

VolVals == {-1, 0, 1}

\* <<high, low, close>> of one bar; the last shape has high < low
BarShapes == {<<1, 1, 1>>, <<2, 2, 2>>, <<2, 1, 1>>, <<2, 1, 2>>, <<3, 1, 2>>, <<1, 2, 1>>}

-----------------------------------------------------------------------------
(* float64 arithmetic: exact rationals plus NaN *)

NaN == <<0, 0>>

IsNaN(x) == x[2] = 0

Abs(i) == IF i < 0 THEN -i ELSE i

RECURSIVE GCD(_, _)
GCD(a, b) == IF b = 0 THEN a ELSE GCD(b, a % b)

Rat(n, d) ==
    LET g == GCD(Abs(n), Abs(d))
    IN  IF d < 0 THEN <<(-n) \div g, (-d) \div g>> ELSE <<n \div g, d \div g>>

R(i) == <<i, 1>>

FAdd(x, y) ==
    IF IsNaN(x) \/ IsNaN(y) THEN NaN
    ELSE LET g == GCD(x[2], y[2])
         IN  Rat(x[1] * (y[2] \div g) + y[1] * (x[2] \div g), (x[2] \div g) * y[2])

FNeg(x) == IF IsNaN(x) THEN NaN ELSE <<-x[1], x[2]>>

FSub(x, y) == FAdd(x, FNeg(y))

FMul(x, y) ==
    IF IsNaN(x) \/ IsNaN(y) THEN NaN
    ELSE LET a == Rat(x[1], y[2])
             b == Rat(y[1], x[2])
         IN  <<a[1] * b[1], a[2] * b[2]>>

\* every division of the source has a divisor the code keeps non-zero
FDiv(x, y) ==
    IF IsNaN(x) \/ IsNaN(y) \/ y[1] = 0 THEN NaN
    ELSE FMul(x, Rat(y[2], y[1]))

FLt(x, y) == ~IsNaN(x) /\ ~IsNaN(y) /\ x[1] * y[2] < y[1] * x[2]

FLe(x, y) == ~IsNaN(x) /\ ~IsNaN(y) /\ x[1] * y[2] <= y[1] * x[2]

FGt(x, y) == FLt(y, x)

FGe(x, y) == FLe(y, x)

FAbs(x) == IF IsNaN(x) THEN NaN ELSE <<Abs(x[1]), x[2]>>

\* Python max(a, b): b if b > a else a
FMax(a, b) == IF FGt(b, a) THEN b ELSE a

\* Python min(a, b): b if b < a else a
FMin(a, b) == IF FLt(b, a) THEN b ELSE a

-----------------------------------------------------------------------------
(* arrays *)

Len0(a) == Cardinality(DOMAIN a)

Empty == [i \in {} |-> NaN]

Arrays(n, S) == [0..(n - 1) -> {R(v) : v \in S}]

\* a[lo:hi] with 0 <= lo <= hi <= len(a)
Slice(a, lo, hi) == [i \in 0..(hi - lo - 1) |-> a[lo + i]]

\* c * a
VScale(c, a) == [i \in DOMAIN a |-> FMul(c, a[i])]

VAdd(a, b) == [i \in DOMAIN a |-> FAdd(a[i], b[i])]

VSub(a, b) == [i \in DOMAIN a |-> FSub(a[i], b[i])]

-----------------------------------------------------------------------------
(* results of a call *)

Ok(o, l) == [err |-> "none", out |-> o, loc |-> l]

Fail(e) == [err |-> e, out |-> <<>>, loc |-> <<>>]

-----------------------------------------------------------------------------
(* Series Adapter (BaseIndicator) *)

\* normalize: an empty input is rejected
validate_input(x) == IF Len0(x) = 0 THEN "InvalidInputError" ELSE "none"

validate_period(period, series_length) ==
    IF period <= 0 \/ period > series_length THEN "InvalidParameterError" ELSE "none"

\* align: buffers of different lengths are rejected
align_arrays(lens) ==
    IF \E i, j \in DOMAIN lens : lens[i] # lens[j] THEN "MisalignedInputError" ELSE "none"

-----------------------------------------------------------------------------
(* SMA *)

\* sum_val after `for i in range(k): sum_val += data[i]`, left to right
RECURSIVE SumFirst(_, _)
SumFirst(d, k) == IF k = 0 THEN R(0) ELSE FAdd(SumFirst(d, k - 1), d[k - 1])

\* the rolling update with the leaving element taken one position too late
RECURSIVE sma_sum_val_late(_, _, _)
sma_sum_val_late(d, period, i) ==
    IF i = period - 1 THEN SumFirst(d, period)
    ELSE FAdd(FSub(sma_sum_val_late(d, period, i - 1), d[i - period + 1]), d[i])

\* sum_val after iteration i of the rolling loop (i >= period - 1)
RECURSIVE sma_sum_val(_, _, _)
sma_sum_val(d, period, i) ==
    IF i = period - 1 THEN SumFirst(d, period)
    ELSE FAdd(FSub(sma_sum_val(d, period, i - 1), d[i - period]), d[i])

_calculate_sma(d, period) ==
    [i \in DOMAIN d |->
        IF i < period - 1 THEN NaN
        ELSE FDiv(sma_sum_val(d, period, i), R(period))]

SMA_calculate(d, period) ==
    IF validate_input(d) # "none" THEN Fail(validate_input(d))
    ELSE IF validate_period(period, Len0(d)) # "none"
         THEN Fail(validate_period(period, Len0(d)))
    ELSE Ok(<<_calculate_sma(d, period)>>, <<>>)

-----------------------------------------------------------------------------
(* EMA *)

\* the seed taken from the first sample instead of the mean of the first period
ema_seed_first_sample(d, period) == d[0]

\* result[period-1] = sum_val / period
ema_seed(d, period) == FDiv(SumFirst(d, period), R(period))

\* the recurrence with the smoothing factor 2 / period
RECURSIVE ema_at_alpha_period(_, _, _)
ema_at_alpha_period(d, period, i) ==
    LET alpha == FDiv(R(2), R(period))
    IN  IF i < period - 1 THEN NaN
        ELSE IF i = period - 1 THEN ema_seed(d, period)
        ELSE FAdd(FMul(alpha, d[i]),
                  FMul(FSub(R(1), alpha), ema_at_alpha_period(d, period, i - 1)))

\* the recurrence restarting from the sample after an undefined value
RECURSIVE ema_at_recovering(_, _, _)
ema_at_recovering(d, period, i) ==
    LET alpha == FDiv(R(2), R(period + 1))
    IN  IF i < period - 1 THEN NaN
        ELSE IF i = period - 1 THEN ema_seed(d, period)
        ELSE IF IsNaN(ema_at_recovering(d, period, i - 1)) THEN d[i]
        ELSE FAdd(FMul(alpha, d[i]),
                  FMul(FSub(R(1), alpha), ema_at_recovering(d, period, i - 1)))

RECURSIVE ema_at(_, _, _)
ema_at(d, period, i) ==
    LET alpha == FDiv(R(2), R(period + 1))
    IN  IF i < period - 1 THEN NaN
        ELSE IF i = period - 1 THEN ema_seed(d, period)
        ELSE FAdd(FMul(alpha, d[i]),
                  FMul(FSub(R(1), alpha), ema_at(d, period, i - 1)))

_calculate_ema(d, period) == [i \in DOMAIN d |-> ema_at(d, period, i)]

EMA_calculate(d, period) ==
    IF validate_input(d) # "none" THEN Fail(validate_input(d))
    ELSE IF validate_period(period, Len0(d)) # "none"
         THEN Fail(validate_period(period, Len0(d)))
    ELSE Ok(<<_calculate_ema(d, period)>>, <<>>)

-----------------------------------------------------------------------------
(* WMA *)

\* the weighted sum with the weights running the other way: period for the
\* oldest sample of the window, 1 for the most recent
RECURSIVE wma_weighted_sum_reversed(_, _, _, _)
wma_weighted_sum_reversed(d, period, i, k) ==
    IF k = 0 THEN R(0)
    ELSE FAdd(wma_weighted_sum_reversed(d, period, i, k - 1),
              FMul(d[i - period + 1 + (k - 1)], R(period - k + 1)))

\* weighted_sum after `for j in range(k)` at output index i
RECURSIVE wma_weighted_sum(_, _, _, _)
wma_weighted_sum(d, period, i, k) ==
    IF k = 0 THEN R(0)
    ELSE FAdd(wma_weighted_sum(d, period, i, k - 1),
              FMul(d[i - period + 1 + (k - 1)], R(k)))

_calculate_wma(d, period) ==
    LET weight_sum == (period * (period + 1)) \div 2
    IN  [i \in DOMAIN d |->
            IF i < period - 1 THEN NaN
            ELSE FDiv(wma_weighted_sum(d, period, i, period), R(weight_sum))]

WMA_calculate(d, period) ==
    IF validate_input(d) # "none" THEN Fail(validate_input(d))
    ELSE IF validate_period(period, Len0(d)) # "none"
         THEN Fail(validate_period(period, Len0(d)))
    ELSE Ok(<<_calculate_wma(d, period)>>, <<>>)

-----------------------------------------------------------------------------
(* DEMA, TEMA *)

DEMA_calculate(d, period) ==
    IF validate_input(d) # "none" THEN Fail(validate_input(d))
    ELSE IF validate_period(period, Len0(d)) # "none"
         THEN Fail(validate_period(period, Len0(d)))
    ELSE LET ema1 == EMA_calculate(d, period)
         IN  IF ema1.err # "none" THEN ema1
             ELSE LET ema2 == EMA_calculate(ema1.out[1], period)
                  IN  IF ema2.err # "none" THEN ema2
                      ELSE Ok(<<VSub(VScale(R(2), ema1.out[1]), ema2.out[1])>>, <<>>)

TEMA_calculate(d, period) ==
    IF validate_input(d) # "none" THEN Fail(validate_input(d))
    ELSE IF validate_period(period, Len0(d)) # "none"
         THEN Fail(validate_period(period, Len0(d)))
    ELSE LET ema1 == EMA_calculate(d, period)
         IN  IF ema1.err # "none" THEN ema1
             ELSE LET ema2 == EMA_calculate(ema1.out[1], period)
                  IN  IF ema2.err # "none" THEN ema2
                      ELSE LET ema3 == EMA_calculate(ema2.out[1], period)
                           IN  IF ema3.err # "none" THEN ema3
                               ELSE Ok(<<VAdd(VSub(VScale(R(3), ema1.out[1]),
                                                   VScale(R(3), ema2.out[1])),
                                              ema3.out[1])>>, <<>>)

-----------------------------------------------------------------------------
(* ATR helper *)

\* the true range with the signed distances to the previous close
tr_at_signed(h, l, c, i) ==
    IF i = 0 THEN FSub(h[0], l[0])
    ELSE LET hl == FSub(h[i], l[i])
             hc == FSub(h[i], c[i - 1])
             lc == FSub(l[i], c[i - 1])
         IN  FMax(FMax(hl, hc), lc)

tr_at(h, l, c, i) ==
    IF i = 0 THEN FSub(h[0], l[0])
    ELSE LET hl == FSub(h[i], l[i])
             hc == FAbs(FSub(h[i], c[i - 1]))
             lc == FAbs(FSub(l[i], c[i - 1]))
         IN  FMax(FMax(hl, hc), lc)

RECURSIVE sum_tr(_, _, _, _)
sum_tr(h, l, c, k) ==
    IF k = 0 THEN R(0) ELSE FAdd(sum_tr(h, l, c, k - 1), tr_at(h, l, c, k - 1))

RECURSIVE atr_at(_, _, _, _, _)
atr_at(h, l, c, period, i) ==
    IF i < period - 1 THEN NaN
    ELSE IF i = period - 1 THEN FDiv(sum_tr(h, l, c, period), R(period))
    ELSE FDiv(FAdd(FMul(atr_at(h, l, c, period, i - 1), R(period - 1)),
                   tr_at(h, l, c, i)),
              R(period))

_calculate_atr(h, l, c, period) == [i \in DOMAIN h |-> atr_at(h, l, c, period, i)]

-----------------------------------------------------------------------------
(* Supertrend *)

\* the seed taking the lower band as the supertrend value of the uptrend
st_seed_lower(upper_band, lower_band, first_valid) ==
    [fu  |-> upper_band[first_valid],
     fl  |-> lower_band[first_valid],
     st  |-> lower_band[first_valid],
     dir |-> R(1)]

\* the values written at the seed index first_valid
st_seed(upper_band, lower_band, first_valid) ==
    [fu  |-> upper_band[first_valid],
     fl  |-> lower_band[first_valid],
     st  |-> upper_band[first_valid],
     dir |-> R(1)]

\* the trend step with each comparison made against the opposite band
st_trend_opposite_band(prev_dir, c_i, fu, fl) ==
    IF prev_dir = R(1)
    THEN IF FLe(c_i, fu) THEN [st |-> fl, dir |-> R(-1)]
                         ELSE [st |-> fu, dir |-> R(1)]
    ELSE IF FGe(c_i, fl) THEN [st |-> fu, dir |-> R(1)]
                         ELSE [st |-> fl, dir |-> R(-1)]

\* the trend step with strict comparisons
st_trend_strict(prev_dir, c_i, fu, fl) ==
    IF prev_dir = R(1)
    THEN IF FLt(c_i, fl) THEN [st |-> fl, dir |-> R(-1)]
                         ELSE [st |-> fu, dir |-> R(1)]
    ELSE IF FGt(c_i, fu) THEN [st |-> fu, dir |-> R(1)]
                         ELSE [st |-> fl, dir |-> R(-1)]

\* supertrend[i], direction[i] from direction[i-1], close[i] and the final bands at i
st_trend(prev_dir, c_i, fu, fl) ==
    IF prev_dir = R(1)
    THEN IF FLe(c_i, fl) THEN [st |-> fl, dir |-> R(-1)]
                         ELSE [st |-> fu, dir |-> R(1)]
    ELSE IF FGe(c_i, fu) THEN [st |-> fu, dir |-> R(1)]
                         ELSE [st |-> fl, dir |-> R(-1)]

\* final_upper[i] from the basic band and the previous bar
\* the upper band following the basic band upwards instead of downwards
st_final_upper_loosening(ub_i, prev_fu, prev_close) ==
    IF FGt(ub_i, prev_fu) \/ FGt(prev_close, prev_fu) THEN ub_i ELSE prev_fu

st_final_upper(ub_i, prev_fu, prev_close) ==
    IF FLt(ub_i, prev_fu) \/ FGt(prev_close, prev_fu) THEN ub_i ELSE prev_fu

\* final_lower[i] from the basic band and the previous bar
st_final_lower(lb_i, prev_fl, prev_close) ==
    IF FGt(lb_i, prev_fl) \/ FLt(prev_close, prev_fl) THEN lb_i ELSE prev_fl

\* the four values written at index i >= first_valid by the main loop
RECURSIVE st_at(_, _, _, _, _)
st_at(upper_band, lower_band, c, first_valid, i) ==
    IF i = first_valid THEN st_seed(upper_band, lower_band, first_valid)
    ELSE LET prev == st_at(upper_band, lower_band, c, first_valid, i - 1)
             fu   == st_final_upper(upper_band[i], prev.fu, c[i - 1])
             fl   == st_final_lower(lower_band[i], prev.fl, c[i - 1])
             t    == st_trend(prev.dir, c[i], fu, fl)
         IN  [fu |-> fu, fl |-> fl, st |-> t.st, dir |-> t.dir]

\* direction = np.zeros(n)
st_direction_init == R(0)

_calculate_supertrend(h, l, c, period, multiplier) ==
    LET n           == Len0(c)
        atr         == _calculate_atr(h, l, c, period)
        hl_avg      == [i \in DOMAIN h |-> FDiv(FAdd(h[i], l[i]), R(2))]
        upper_band  == [i \in DOMAIN h |-> FAdd(hl_avg[i], FMul(multiplier, atr[i]))]
        lower_band  == [i \in DOMAIN h |-> FSub(hl_avg[i], FMul(multiplier, atr[i]))]
        first_valid == period - 1
        run         == [i \in first_valid..(n - 1) |->
                            st_at(upper_band, lower_band, c, first_valid, i)]
        valid       == ~(first_valid < 0 \/ first_valid >= n)
        final_upper == [i \in 0..(n - 1) |->
                            IF valid /\ i >= first_valid THEN run[i].fu ELSE NaN]
        final_lower == [i \in 0..(n - 1) |->
                            IF valid /\ i >= first_valid THEN run[i].fl ELSE NaN]
        supertrend  == [i \in 0..(n - 1) |->
                            IF valid /\ i >= first_valid THEN run[i].st ELSE NaN]
        direction   == [i \in 0..(n - 1) |->
                            IF valid /\ i >= first_valid THEN run[i].dir
                            ELSE st_direction_init]
    IN  Ok(<<supertrend, direction>>,
           [atr |-> atr, upper_band |-> upper_band, lower_band |-> lower_band,
            final_upper |-> final_upper, final_lower |-> final_lower])

Supertrend_calculate(h, l, c, period, multiplier) ==
    IF validate_input(h) # "none" THEN Fail(validate_input(h))
    ELSE IF validate_input(l) # "none" THEN Fail(validate_input(l))
    ELSE IF validate_input(c) # "none" THEN Fail(validate_input(c))
    ELSE IF align_arrays(<<Len0(h), Len0(l), Len0(c)>>) # "none"
         THEN Fail(align_arrays(<<Len0(h), Len0(l), Len0(c)>>))
    ELSE IF validate_period(period, Len0(c)) # "none"
         THEN Fail(validate_period(period, Len0(c)))
    ELSE IF FLe(multiplier, R(0)) THEN Fail("ValueError")
    ELSE _calculate_supertrend(h, l, c, period, multiplier)

-----------------------------------------------------------------------------
(* Ichimoku *)

\* a[lo:hi].max() and a[lo:hi].min() over a non-empty slice
RECURSIVE window_max(_, _, _)
window_max(a, lo, hi) ==
    IF hi - lo = 1 THEN a[lo] ELSE FMax(window_max(a, lo, hi - 1), a[hi - 1])

RECURSIVE window_min(_, _, _)
window_min(a, lo, hi) ==
    IF hi - lo = 1 THEN a[lo] ELSE FMin(window_min(a, lo, hi - 1), a[hi - 1])

\* (period_high + period_low) / 2 over the window of `period` bars ending at i
ichimoku_mid(h, l, period, i) ==
    FDiv(FAdd(window_max(h, i - period + 1, i + 1),
              window_min(l, i - period + 1, i + 1)), R(2))

Max2(a, b) == IF a >= b THEN a ELSE b

\* the span buffers returned without the trim
ichimoku_trim_missing(buf, n) == buf

\* the trim keeping the last n positions of the buffer instead of the first n
ichimoku_trim_tail(buf, n) == Slice(buf, Len0(buf) - n, Len0(buf))

\* senkou_span_a = senkou_span_a[:n]
ichimoku_trim(buf, n) == Slice(buf, 0, n)

\* the kernel with the period lows taken from close instead of low
_calculate_ichimoku_low_from_close(h, l, c, tenkan_period, kijun_period, senkou_b_period, displacement) ==
    LET n == Len0(c)
        tenkan_sen == [i \in 0..(n - 1) |->
                          IF i >= tenkan_period - 1
                          THEN ichimoku_mid(h, c, tenkan_period, i) ELSE NaN]
        kijun_sen  == [i \in 0..(n - 1) |->
                          IF i >= kijun_period - 1
                          THEN ichimoku_mid(h, c, kijun_period, i) ELSE NaN]
        span_a_buf == [k \in 0..(n + displacement - 1) |->
                          IF /\ k - displacement >= Max2(tenkan_period, kijun_period) - 1
                             /\ k - displacement < n
                          THEN FDiv(FAdd(tenkan_sen[k - displacement],
                                         kijun_sen[k - displacement]), R(2))
                          ELSE NaN]
        span_b_buf == [k \in 0..(n + displacement - 1) |->
                          IF /\ k - displacement >= senkou_b_period - 1
                             /\ k - displacement < n
                          THEN ichimoku_mid(h, c, senkou_b_period, k - displacement)
                          ELSE NaN]
        chikou_span == [i \in 0..(n - 1) |->
                          IF i >= displacement THEN c[i - displacement] ELSE NaN]
    IN  Ok(<<tenkan_sen, kijun_sen, ichimoku_trim(span_a_buf, n),
             ichimoku_trim(span_b_buf, n), chikou_span>>, <<>>)

_calculate_ichimoku(h, l, c, tenkan_period, kijun_period, senkou_b_period, displacement) ==
    LET n == Len0(c)
        tenkan_sen == [i \in 0..(n - 1) |->
                          IF i >= tenkan_period - 1
                          THEN ichimoku_mid(h, l, tenkan_period, i) ELSE NaN]
        kijun_sen  == [i \in 0..(n - 1) |->
                          IF i >= kijun_period - 1
                          THEN ichimoku_mid(h, l, kijun_period, i) ELSE NaN]
        \* buffers of length n + displacement, written at i + displacement
        span_a_buf == [k \in 0..(n + displacement - 1) |->
                          IF /\ k - displacement >= Max2(tenkan_period, kijun_period) - 1
                             /\ k - displacement < n
                          THEN FDiv(FAdd(tenkan_sen[k - displacement],
                                         kijun_sen[k - displacement]), R(2))
                          ELSE NaN]
        span_b_buf == [k \in 0..(n + displacement - 1) |->
                          IF /\ k - displacement >= senkou_b_period - 1
                             /\ k - displacement < n
                          THEN ichimoku_mid(h, l, senkou_b_period, k - displacement)
                          ELSE NaN]
        \* chikou_span[displacement:] = close[:-displacement]
        chikou_span == [i \in 0..(n - 1) |->
                          IF i >= displacement THEN c[i - displacement] ELSE NaN]
    IN  Ok(<<tenkan_sen, kijun_sen, ichimoku_trim(span_a_buf, n),
             ichimoku_trim(span_b_buf, n), chikou_span>>, <<>>)

\* the loop over the three periods: `if period <= 0: raise ValueError`
ichimoku_period_check(period) == IF period <= 0 THEN "ValueError" ELSE "none"

Ichimoku_calculate(h, l, c, tenkan_period, kijun_period, senkou_b_period, displacement) ==
    IF validate_input(h) # "none" THEN Fail(validate_input(h))
    ELSE IF validate_input(l) # "none" THEN Fail(validate_input(l))
    ELSE IF validate_input(c) # "none" THEN Fail(validate_input(c))
    ELSE IF align_arrays(<<Len0(h), Len0(l), Len0(c)>>) # "none"
         THEN Fail(align_arrays(<<Len0(h), Len0(l), Len0(c)>>))
    ELSE IF ichimoku_period_check(tenkan_period) # "none"
         THEN Fail(ichimoku_period_check(tenkan_period))
    ELSE IF ichimoku_period_check(kijun_period) # "none"
         THEN Fail(ichimoku_period_check(kijun_period))
    ELSE IF ichimoku_period_check(senkou_b_period) # "none"
         THEN Fail(ichimoku_period_check(senkou_b_period))
    ELSE _calculate_ichimoku(h, l, c, tenkan_period, kijun_period,
                             senkou_b_period, displacement)

-----------------------------------------------------------------------------
(* HMA *)

\* int(np.sqrt(period)) for period >= 0
RECURSIVE isqrt_from(_, _)
isqrt_from(x, r) == IF (r + 1) * (r + 1) > x THEN r ELSE isqrt_from(x, r + 1)

\* the square root rounded up instead of truncated
int_sqrt_ceil(x) == IF isqrt_from(x, 0) * isqrt_from(x, 0) = x THEN isqrt_from(x, 0) ELSE isqrt_from(x, 0) + 1

int_sqrt(x) == isqrt_from(x, 0)

HMA_calculate(d, period) ==
    IF validate_input(d) # "none" THEN Fail(validate_input(d))
    ELSE IF validate_period(period, Len0(d)) # "none"
         THEN Fail(validate_period(period, Len0(d)))
    ELSE LET wma_half == WMA_calculate(d, period \div 2)
         IN  IF wma_half.err # "none" THEN wma_half
             ELSE LET wma_full == WMA_calculate(d, period)
                  IN  IF wma_full.err # "none" THEN wma_full
                      ELSE LET diff == VSub(VScale(R(2), wma_half.out[1]), wma_full.out[1])
                           IN  WMA_calculate(diff, int_sqrt(period))

-----------------------------------------------------------------------------
(* VWMA *)

RECURSIVE vwma_sum_pv(_, _, _, _, _)
vwma_sum_pv(d, v, period, i, k) ==
    IF k = 0 THEN R(0)
    ELSE LET idx == i - period + 1 + (k - 1)
         IN  FAdd(vwma_sum_pv(d, v, period, i, k - 1), FMul(d[idx], v[idx]))

RECURSIVE vwma_sum_v(_, _, _, _)
vwma_sum_v(v, period, i, k) ==
    IF k = 0 THEN R(0)
    ELSE FAdd(vwma_sum_v(v, period, i, k - 1), v[i - period + 1 + (k - 1)])

\* the division made without the guard on the volume sum
vwma_at_unguarded(d, v, period, i) ==
    FDiv(vwma_sum_pv(d, v, period, i, period), vwma_sum_v(v, period, i, period))

\* the guard written as sum_v != 0
vwma_at_nonzero(d, v, period, i) ==
    LET s_pv == vwma_sum_pv(d, v, period, i, period)
        s_v  == vwma_sum_v(v, period, i, period)
    IN  IF s_v # R(0) THEN FDiv(s_pv, s_v) ELSE d[i]

\* result[i] for i >= period - 1
vwma_at(d, v, period, i) ==
    LET s_pv == vwma_sum_pv(d, v, period, i, period)
        s_v  == vwma_sum_v(v, period, i, period)
    IN  IF FGt(s_v, R(0)) THEN FDiv(s_pv, s_v) ELSE d[i]

_calculate_vwma(d, v, period) ==
    [i \in DOMAIN d |-> IF i >= period - 1 THEN vwma_at(d, v, period, i) ELSE NaN]

\* calculate with validate_period called before align_arrays
VWMA_calculate_period_first(d, v, period) ==
    IF validate_input(d) # "none" THEN Fail(validate_input(d))
    ELSE IF validate_input(v) # "none" THEN Fail(validate_input(v))
    ELSE IF validate_period(period, Len0(d)) # "none"
         THEN Fail(validate_period(period, Len0(d)))
    ELSE IF align_arrays(<<Len0(d), Len0(v)>>) # "none"
         THEN Fail(align_arrays(<<Len0(d), Len0(v)>>))
    ELSE Ok(<<_calculate_vwma(d, v, period)>>, <<>>)

VWMA_calculate(d, v, period) ==
    IF validate_input(d) # "none" THEN Fail(validate_input(d))
    ELSE IF validate_input(v) # "none" THEN Fail(validate_input(v))
    ELSE IF align_arrays(<<Len0(d), Len0(v)>>) # "none"
         THEN Fail(align_arrays(<<Len0(d), Len0(v)>>))
    ELSE IF validate_period(period, Len0(d)) # "none"
         THEN Fail(validate_period(period, Len0(d)))
    ELSE Ok(<<_calculate_vwma(d, v, period)>>, <<>>)

-----------------------------------------------------------------------------
(* ALMA *)

RECURSIVE Pow2(_)
Pow2(k) == IF k = 0 THEN 1 ELSE 2 * Pow2(k - 1)

\* np.exp(y) for y <= 0, as the dyadic rational 2^floor(y): positive, at most 1,
\* equal to 1 at y = 0 and non-increasing in |y|
np_exp(y) == <<1, Pow2(-(y[1] \div y[2]))>>

alma_weight(period, offset, sigma, i) ==
    LET m == FMul(offset, R(period - 1))
        s == FDiv(R(period), sigma)
        e == FSub(R(i), m)
    IN  np_exp(FNeg(FDiv(FMul(e, e), FMul(R(2), FMul(s, s)))))

RECURSIVE alma_weight_sum(_, _, _, _)
alma_weight_sum(period, offset, sigma, k) ==
    IF k = 0 THEN R(0)
    ELSE FAdd(alma_weight_sum(period, offset, sigma, k - 1),
              alma_weight(period, offset, sigma, k - 1))

\* the weights left without the division by weight_sum
alma_weights_raw(period, offset, sigma) ==
    [j \in 0..(period - 1) |-> alma_weight(period, offset, sigma, j)]

\* weights = weights / weight_sum
alma_weights(period, offset, sigma) ==
    [j \in 0..(period - 1) |->
        FDiv(alma_weight(period, offset, sigma, j),
             alma_weight_sum(period, offset, sigma, period))]

RECURSIVE alma_sum(_, _, _, _, _)
alma_sum(d, w, period, i, k) ==
    IF k = 0 THEN R(0)
    ELSE FAdd(alma_sum(d, w, period, i, k - 1),
              FMul(w[k - 1], d[i - period + 1 + (k - 1)]))

_calculate_alma(d, period, offset, sigma) ==
    LET w == alma_weights(period, offset, sigma)
    IN  [i \in DOMAIN d |->
            IF i >= period - 1 THEN alma_sum(d, w, period, i, period) ELSE NaN]

ALMA_calculate(d, period, offset, sigma) ==
    IF validate_input(d) # "none" THEN Fail(validate_input(d))
    ELSE IF validate_period(period, Len0(d)) # "none"
         THEN Fail(validate_period(period, Len0(d)))
    ELSE IF ~(FLe(R(0), offset) /\ FLe(offset, R(1))) THEN Fail("ValueError")
    ELSE IF FLe(sigma, R(0)) THEN Fail("ValueError")
    ELSE Ok(<<_calculate_alma(d, period, offset, sigma)>>, <<>>)

-----------------------------------------------------------------------------
(* KAMA *)

RECURSIVE kama_volatility(_, _, _)
kama_volatility(d, i, k) ==
    IF k = 0 THEN R(0)
    ELSE FAdd(kama_volatility(d, i, k - 1),
              FAbs(FSub(d[i - (k - 1)], d[i - (k - 1) - 1])))

\* er at index i >= period
kama_er(d, period, i) ==
    LET direction  == FAbs(FSub(d[i], d[i - period]))
        volatility == kama_volatility(d, i, period)
    IN  IF FGt(volatility, R(0)) THEN FDiv(direction, volatility) ELSE R(0)

\* the smoothing constant left unsquared
kama_sc_unsquared(d, period, fast_sc, slow_sc, i) ==
    FAdd(FMul(kama_er(d, period, i), FSub(fast_sc, slow_sc)), slow_sc)

kama_sc(d, period, fast_sc, slow_sc, i) ==
    LET b == FAdd(FMul(kama_er(d, period, i), FSub(fast_sc, slow_sc)), slow_sc)
    IN  FMul(b, b)

RECURSIVE kama_at(_, _, _, _, _)
kama_at(d, period, fast_sc, slow_sc, i) ==
    IF i < period - 1 THEN NaN
    ELSE IF i = period - 1 THEN d[period - 1]
    ELSE LET prev == kama_at(d, period, fast_sc, slow_sc, i - 1)
         IN  FAdd(prev, FMul(kama_sc(d, period, fast_sc, slow_sc, i), FSub(d[i], prev)))

_calculate_kama(d, period, fast_sc, slow_sc) ==
    [i \in DOMAIN d |-> kama_at(d, period, fast_sc, slow_sc, i)]

\* calculate without the two checks of fast_period and slow_period
KAMA_calculate_unchecked(d, period, fast_period, slow_period) ==
    IF validate_input(d) # "none" THEN Fail(validate_input(d))
    ELSE IF validate_period(period, Len0(d)) # "none"
         THEN Fail(validate_period(period, Len0(d)))
    ELSE LET fast_sc == FDiv(R(2), R(fast_period + 1))
             slow_sc == FDiv(R(2), R(slow_period + 1))
         IN  Ok(<<_calculate_kama(d, period, fast_sc, slow_sc)>>, <<>>)

KAMA_calculate(d, period, fast_period, slow_period) ==
    IF validate_input(d) # "none" THEN Fail(validate_input(d))
    ELSE IF validate_period(period, Len0(d)) # "none"
         THEN Fail(validate_period(period, Len0(d)))
    ELSE IF fast_period <= 0 \/ slow_period <= 0 THEN Fail("ValueError")
    ELSE IF fast_period >= slow_period THEN Fail("ValueError")
    ELSE LET fast_sc == FDiv(R(2), R(fast_period + 1))
             slow_sc == FDiv(R(2), R(slow_period + 1))
         IN  Ok(<<_calculate_kama(d, period, fast_sc, slow_sc)>>, <<>>)

-----------------------------------------------------------------------------
(* ZLEMA *)

zlema_adjusted(d, lag) ==
    [i \in DOMAIN d |->
        IF i < lag THEN d[i] ELSE FSub(FMul(R(2), d[i]), d[i - lag])]

\* the lagged-data loop writing through adjusted_data into validated_data
zlema_validated_data_aliased(d, lag) == zlema_adjusted(d, lag)

\* validated_data after the lagged-data loop: adjusted_data is a buffer of its
\* own (np.empty_like), every write goes to it and validated_data is only read
zlema_validated_data(d, lag) == d

\* the caller's buffer after calculate, validated_data taken to share it
ZLEMA_data_after(d, period) ==
    IF validate_input(d) # "none" \/ validate_period(period, Len0(d)) # "none"
    THEN d
    ELSE zlema_validated_data(d, (period - 1) \div 2)

ZLEMA_calculate(d, period) ==
    IF validate_input(d) # "none" THEN Fail(validate_input(d))
    ELSE IF validate_period(period, Len0(d)) # "none"
         THEN Fail(validate_period(period, Len0(d)))
    ELSE EMA_calculate(zlema_adjusted(d, (period - 1) \div 2), period)

-----------------------------------------------------------------------------
(* T3 *)

\* the smoothing with the first position left undefined
RECURSIVE gd_ema_at_unseeded(_, _, _)
gd_ema_at_unseeded(x, alpha, i) ==
    IF i = 0 THEN NaN
    ELSE FAdd(FMul(alpha, x[i]),
              FMul(FSub(R(1), alpha), gd_ema_at_unseeded(x, alpha, i - 1)))

\* the raw exponential smoothing of _calculate_gd, seeded by the first sample
RECURSIVE gd_ema_at(_, _, _)
gd_ema_at(x, alpha, i) ==
    IF i = 0 THEN x[0]
    ELSE FAdd(FMul(alpha, x[i]), FMul(FSub(R(1), alpha), gd_ema_at(x, alpha, i - 1)))

gd_ema(x, alpha) == [i \in DOMAIN x |-> gd_ema_at(x, alpha, i)]

_calculate_gd(d, period, v_factor) ==
    LET alpha == FDiv(R(2), R(period + 1))
        ema1  == gd_ema(d, alpha)
        ema2  == gd_ema(ema1, alpha)
    IN  VSub(VScale(FAdd(R(1), v_factor), ema1), VScale(v_factor, ema2))

\* data after _calculate_gd: ema1, ema2 and gd are buffers of their own
\* (np.empty_like and the array expression), data is only read
gd_data(x) == x

\* the caller's buffer after calculate: only the first _calculate_gd is given it
T3_data_after(d, period) ==
    IF validate_input(d) # "none" \/ validate_period(period, Len0(d)) # "none"
    THEN d
    ELSE gd_data(d)

T3_calculate(d, period, v_factor) ==
    IF validate_input(d) # "none" THEN Fail(validate_input(d))
    ELSE IF validate_period(period, Len0(d)) # "none"
         THEN Fail(validate_period(period, Len0(d)))
    ELSE LET gd1 == _calculate_gd(d, period, v_factor)
             gd2 == _calculate_gd(gd1, period, v_factor)
         IN  Ok(<<_calculate_gd(gd2, period, v_factor)>>, <<>>)

-----------------------------------------------------------------------------
(* FRAMA *)

RECURSIVE floor_log2(_)
floor_log2(x) == IF x < 2 THEN 0 ELSE 1 + floor_log2(x \div 2)

\* np.log(x) / np.log(2) for x >= 1, as the rational k + (x / 2^k - 1) with
\* 2^k <= x < 2^(k+1): exact at the powers of two, increasing, piecewise linear
np_log2(x) ==
    LET k == floor_log2(x[1] \div x[2])
    IN  FAdd(R(k), FSub(FDiv(x, R(Pow2(k))), R(1)))

\* the fractal dimension d of the window ending at i, clamped to [1, 2]
frama_d(d, period, i) ==
    LET n1 == period \div 2
        n2 == period - n1
        h1 == window_max(d, i - period + 1, i - n2 + 1)
        l1 == window_min(d, i - period + 1, i - n2 + 1)
        h2 == window_max(d, i - n2 + 1, i + 1)
        l2 == window_min(d, i - n2 + 1, i + 1)
        h3 == window_max(d, i - period + 1, i + 1)
        l3 == window_min(d, i - period + 1, i + 1)
        dd == IF /\ FGt(FSub(h1, l1), R(0))
                 /\ FGt(FSub(h2, l2), R(0))
                 /\ FGt(FSub(h3, l3), R(0))
              THEN FSub(FAdd(np_log2(FSub(h1, l1)), np_log2(FSub(h2, l2))),
                        np_log2(FSub(h3, l3)))
              ELSE R(1)
    IN  FMax(R(1), FMin(R(2), dd))

frama_alpha_adj(d, period, i) ==
    LET alpha == FDiv(R(2), R(period + 1))
        w     == np_log2(FDiv(R(2), alpha))
    IN  FDiv(R(2), FAdd(FMul(w, frama_d(d, period, i)), R(1)))

RECURSIVE frama_at(_, _, _)
frama_at(d, period, i) ==
    IF i < period - 1 THEN NaN
    ELSE IF i = period - 1 THEN d[period - 1]
    ELSE LET a == frama_alpha_adj(d, period, i)
         IN  FAdd(FMul(a, d[i]), FMul(FSub(R(1), a), frama_at(d, period, i - 1)))

_calculate_frama(d, period) == [i \in DOMAIN d |-> frama_at(d, period, i)]

FRAMA_calculate(d, period) ==
    IF validate_input(d) # "none" THEN Fail(validate_input(d))
    ELSE IF validate_period(period, Len0(d)) # "none"
         THEN Fail(validate_period(period, Len0(d)))
    ELSE IF period < 4 THEN Fail("ValueError")
    ELSE Ok(<<_calculate_frama(d, period)>>, <<>>)

-----------------------------------------------------------------------------------------------------------------------------------------------------
(* The caller *)

\* period arguments tried on a series of length n: negative, zero, every
\* valid period and one beyond the length
Periods(n) == (-1)..(n + 1)

Multipliers == {R(0), R(1), R(3)}

\* (tenkan, kijun, senkou_b): valid periods with tenkan below, equal to and above
\* kijun, and each period in turn zero, negative or beyond the length n
IchimokuPeriods(n) ==
    LET bad == {-1, 0, n + 1}
    IN  (({1, 2} \cap (1..n)) \X ({1, n} \cap (1..n)) \X ({2, n} \cap (1..n)))
        \cup {<<b, 1, 1>> : b \in bad}
        \cup {<<1, b, 1>> : b \in bad}
        \cup {<<1, 1, b>> : b \in bad}

Displacements == 1..MaxDisp

\* (offset, sigma), the defaults first
AlmaParams == {<<Rat(17, 20), R(6)>>, <<R(0), R(1)>>, <<R(1), R(2)>>,
               <<R(2), R(6)>>, <<R(-1), R(6)>>, <<R(1), R(0)>>}

\* (fast_period, slow_period)
KamaParams == {<<1, 3>>, <<2, 5>>, <<2, 2>>, <<3, 2>>, <<0, 3>>, <<1, 0>>}

VFactors == {Rat(1, 2), R(1)}

\* the series 1, 2, 3, 4, 5 of the documented scenarios
ExampleSeries == [i \in 0..4 |-> R(i + 1)]

\* the series a caller may hold: one price series, a price and a volume
\* series, or high/low/close bars; a second series may be one sample short
\* (for bars, with every bar of one shape: such a call ends at the alignment)
InitSeries ==
    /\ kind = "series"
    /\ \/ \E n \in 0..MaxLen : data \in Arrays(n, DataVals)
       \/ data = ExampleSeries
    /\ volume = Empty /\ high = Empty /\ low = Empty /\ close = Empty

InitPriceVolume ==
    /\ kind = "price_volume"
    /\ \E n \in 1..MaxBars :
          /\ data \in Arrays(n, DataVals)
          /\ volume \in Arrays(n, VolVals) \cup Arrays(n - 1, VolVals)
    /\ high = Empty /\ low = Empty /\ close = Empty

InitBars ==
    /\ kind = "bars"
    /\ \E n \in 1..MaxBars : \E b \in [0..(n - 1) -> BarShapes] : \E short \in BOOLEAN :
          /\ short => \A i \in 0..(n - 1) : b[i] = b[0]
          /\ high  = [i \in 0..(n - 1) |-> R(b[i][1])]
          /\ low   = [i \in 0..((IF short THEN n - 1 ELSE n) - 1) |-> R(b[i][2])]
          /\ close = [i \in 0..(n - 1) |-> R(b[i][3])]
    /\ data = Empty /\ volume = Empty

Init ==
    /\ InitSeries \/ InitPriceVolume \/ InitBars
    /\ pc = "idle" /\ kernel = "none" /\ args = <<>>
    /\ err = "none" /\ out = <<>> /\ loc = <<>>

\* calculate returns r (a result or an error) to the caller
ReturnResult(k, a, r) ==
    /\ pc' = "returned"
    /\ kernel' = k
    /\ args' = a
    /\ err' = r.err
    /\ out' = r.out
    /\ loc' = r.loc

\* a calculate with no assignment to an element of a buffer it was given
Return(k, a, r) ==
    /\ ReturnResult(k, a, r)
    /\ UNCHANGED inputs

CallSMA ==
    /\ pc = "idle" /\ kind = "series"
    /\ \E p \in Periods(Len0(data)) :
          Return("SMA", [period |-> p], SMA_calculate(data, p))

CallEMA ==
    /\ pc = "idle" /\ kind = "series"
    /\ \E p \in Periods(Len0(data)) :
          Return("EMA", [period |-> p], EMA_calculate(data, p))

CallWMA ==
    /\ pc = "idle" /\ kind = "series"
    /\ \E p \in Periods(Len0(data)) :
          Return("WMA", [period |-> p], WMA_calculate(data, p))

CallDEMA ==
    /\ pc = "idle" /\ kind = "series"
    /\ \E p \in Periods(Len0(data)) :
          Return("DEMA", [period |-> p], DEMA_calculate(data, p))

CallTEMA ==
    /\ pc = "idle" /\ kind = "series"
    /\ \E p \in Periods(Len0(data)) :
          Return("TEMA", [period |-> p], TEMA_calculate(data, p))

CallHMA ==
    /\ pc = "idle" /\ kind = "series"
    /\ \E p \in Periods(Len0(data)) :
          Return("HMA", [period |-> p], HMA_calculate(data, p))

CallZLEMA ==
    /\ pc = "idle" /\ kind = "series"
    /\ \E p \in Periods(Len0(data)) :
          /\ ReturnResult("ZLEMA", [period |-> p], ZLEMA_calculate(data, p))
          /\ data' = ZLEMA_data_after(data, p)
    /\ UNCHANGED <<kind, volume, high, low, close>>

CallT3 ==
    /\ pc = "idle" /\ kind = "series"
    /\ \E p \in Periods(Len0(data)) : \E v \in VFactors :
          /\ ReturnResult("T3", [period |-> p, v_factor |-> v], T3_calculate(data, p, v))
          /\ data' = T3_data_after(data, p)
    /\ UNCHANGED <<kind, volume, high, low, close>>

CallALMA ==
    /\ pc = "idle" /\ kind = "series"
    /\ \E p \in Periods(Len0(data)) : \E q \in AlmaParams :
          Return("ALMA", [period |-> p, offset |-> q[1], sigma |-> q[2]],
                 ALMA_calculate(data, p, q[1], q[2]))

CallKAMA ==
    /\ pc = "idle" /\ kind = "series"
    /\ \E p \in Periods(Len0(data)) : \E q \in KamaParams :
          Return("KAMA", [period |-> p, fast_period |-> q[1], slow_period |-> q[2]],
                 KAMA_calculate(data, p, q[1], q[2]))

CallFRAMA ==
    /\ pc = "idle" /\ kind = "series"
    /\ \E p \in Periods(Len0(data)) :
          Return("FRAMA", [period |-> p], FRAMA_calculate(data, p))

CallVWMA ==
    /\ pc = "idle" /\ kind = "price_volume"
    /\ \E p \in Periods(Len0(data)) :
          Return("VWMA", [period |-> p], VWMA_calculate(data, volume, p))

CallSupertrend ==
    /\ pc = "idle" /\ kind = "bars"
    /\ \E p \in Periods(Len0(close)) : \E m \in Multipliers :
          Return("Supertrend", [period |-> p, multiplier |-> m],
                 Supertrend_calculate(high, low, close, p, m))

CallIchimoku ==
    /\ pc = "idle" /\ kind = "bars"
    /\ \E q \in IchimokuPeriods(Len0(close)) : \E dsp \in Displacements :
          Return("Ichimoku",
                 [tenkan_period |-> q[1], kijun_period |-> q[2],
                  senkou_b_period |-> q[3], displacement |-> dsp],
                 Ichimoku_calculate(high, low, close, q[1], q[2], q[3], dsp))

\* the caller drops the result; nothing survives the call
Discard ==
    /\ pc = "returned"
    /\ pc' = "idle" /\ kernel' = "none" /\ args' = <<>>
    /\ err' = "none" /\ out' = <<>> /\ loc' = <<>>
    /\ UNCHANGED inputs

Next ==
    \/ CallSMA
    \/ CallEMA
    \/ CallWMA
    \/ CallDEMA
    \/ CallTEMA
    \/ CallHMA
    \/ CallZLEMA
    \/ CallT3
    \/ CallALMA
    \/ CallKAMA
    \/ CallFRAMA
    \/ CallVWMA
    \/ CallSupertrend
    \/ CallIchimoku
    \/ Discard

Spec == Init /\ [][Next]_vars

-----------------------------------------------------------------------------
(* Properties *)

Returned(k) == pc = "returned" /\ kernel = k /\ err = "none"

\* high = low = close = c on every bar
ConstantBars ==
    /\ Len0(high) = Len0(close) /\ Len0(low) = Len0(close)
    /\ \A i \in DOMAIN close : high[i] = close[0] /\ low[i] = close[0] /\ close[i] = close[0]

ConstantData == \A i \in DOMAIN data : data[i] = data[0]

\* C1: every element of the direction series returned by Supertrend, at every
\* index 0..n-1 including the indices before period-1, is +1 or -1.
C1_DirectionIsPlusOrMinusOne ==
    Returned("Supertrend") =>
        \A i \in DOMAIN out[2] : out[2][i] \in {R(1), R(-1)}

\* C2: in Supertrend, for every index i > period-1, a change of direction from
\* +1 to -1 at i implies close[i] <= finalLower[i], a change from -1 to +1
\* implies close[i] >= finalUpper[i], and the direction does not change at i
\* when the corresponding comparison is false.
C2_FlipOnlyOnCross ==
    Returned("Supertrend") =>
        \A i \in args.period..(Len0(close) - 1) :
            LET dir == out[2]
                fl  == loc.final_lower
                fu  == loc.final_upper
            IN  /\ (dir[i - 1] = R(1) /\ dir[i] = R(-1)) => FLe(close[i], fl[i])
                /\ (dir[i - 1] = R(-1) /\ dir[i] = R(1)) => FGe(close[i], fu[i])
                /\ (dir[i - 1] = R(1) /\ ~FLe(close[i], fl[i])) => dir[i] = R(1)
                /\ (dir[i - 1] = R(-1) /\ ~FGe(close[i], fu[i])) => dir[i] = R(-1)

\* a Supertrend run on bars that are not all equal, which turns down and later
\* turns up again
C2_Witness ==
    /\ Returned("Supertrend")
    /\ ~ConstantBars
    /\ \E i, j \in args.period..(Len0(close) - 1) :
          /\ out[2][i - 1] = R(1) /\ out[2][i] = R(-1)
          /\ out[2][j - 1] = R(-1) /\ out[2][j] = R(1)

\* the part of the constant-series scenario that does not concern the state:
\* ATR = 0, upper = lower = c and supertrend = c at every index >= period-1
C3_Pinned ==
    \A i \in (args.period - 1)..(Len0(close) - 1) :
        /\ loc.atr[i] = R(0)
        /\ loc.upper_band[i] = close[0]
        /\ loc.lower_band[i] = close[0]
        /\ out[1][i] = close[0]

\* C3 as stated: for a constant series high = low = close = c, Supertrend
\* yields ATR = 0, upper = lower = c and supertrend = c at every index
\* >= period-1, and the direction stays +1 at every index >= period-1.
C3_ConstantNeverFlips ==
    (Returned("Supertrend") /\ ConstantBars) =>
        /\ C3_Pinned
        /\ \A i \in (args.period - 1)..(Len0(close) - 1) : out[2][i] = R(1)

\* C3 amended: for a constant series high = low = close = c, Supertrend
\* yields ATR = 0, upper = lower = c and supertrend = c at every index
\* >= period-1, and the direction is +1 at index period-1 and changes at every
\* later index: -1 at period, +1 at period+1, and so on.
C3_ConstantAlternates ==
    (Returned("Supertrend") /\ ConstantBars) =>
        /\ C3_Pinned
        /\ \A i \in (args.period - 1)..(Len0(close) - 1) :
              out[2][i] = IF (i - (args.period - 1)) % 2 = 0 THEN R(1) ELSE R(-1)

\* a constant series with multiplier 3 and at least two bars after the seed
C3_Witness ==
    /\ Returned("Supertrend") /\ ConstantBars
    /\ args.multiplier = R(3)
    /\ Len0(close) - args.period >= 2
    /\ out[2][args.period] = R(-1)
    /\ out[2][args.period + 1] = R(1)

\* C4: for a constant input series (every sample c), DEMA and TEMA output the
\* defined value c at every index after their warm-up (2(p-1) for DEMA, 3(p-1)
\* for TEMA), not the undefined sentinel.
C4_ConstantInConstantOut ==
    /\ (Returned("DEMA") /\ ConstantData) =>
          \A i \in (2 * (args.period - 1))..(Len0(data) - 1) : out[1][i] = data[0]
    /\ (Returned("TEMA") /\ ConstantData) =>
          \A i \in (3 * (args.period - 1))..(Len0(data) - 1) : out[1][i] = data[0]

\* the period arguments of the last call
PeriodArgs ==
    IF kernel = "Ichimoku"
    THEN {args.tenkan_period, args.kijun_period, args.senkou_b_period}
    ELSE {args.period}

\* the (aligned) input length of the last call
InputLen == IF kind = "series" \/ kind = "price_volume" THEN Len0(data) ELSE Len0(close)

\* C5: every kernel's calculate rejects with an error, returning no result, any
\* period argument that is 0, negative or greater than the input length,
\* Ichimoku's three periods included.
C5_BadPeriodRejected ==
    (pc = "returned" /\ \E p \in PeriodArgs : p <= 0 \/ p > InputLen) =>
        (err # "none" /\ out = <<>>)

\* the number of series each kernel returns
OutputCount == IF kernel = "Ichimoku" THEN 5 ELSE IF kernel = "Supertrend" THEN 2 ELSE 1

C8_T3WarmupUndefined ==
    Returned("T3") => \A i \in 0..(args.period - 2) : IsNaN(out[1][i])

\* C8 amended: T3 has no undefined warm-up; on finite input every position of
\* the returned series, the first p-1 positions included, holds a defined value.
C8_T3AllDefined ==
    Returned("T3") => \A i \in DOMAIN out[1] : ~IsNaN(out[1][i])

\* T3 with a period of at least 2
C8_Witness ==
    /\ Returned("T3")
    /\ args.period >= 2
    /\ ~IsNaN(out[1][0])

\* C9: EMA(data, p)[p-1] equals SMA(data, p)[p-1] exactly, both being the sum
\* of the first p samples accumulated left to right divided by p.
C9_EmaSeedIsSma ==
    Returned("EMA") =>
        /\ out[1][args.period - 1] = SMA_calculate(data, args.period).out[1][args.period - 1]
        /\ out[1][args.period - 1] = FDiv(SumFirst(data, args.period), R(args.period))

\* an EMA whose seed averages samples that are not all equal
C9_Witness ==
    /\ Returned("EMA")
    /\ args.period >= 2
    /\ \E i \in 0..(args.period - 1) : data[i] # data[0]

\* the sum of data[lo..hi] computed directly
RECURSIVE DirectSum(_, _, _)
DirectSum(d, lo, hi) == IF hi < lo THEN R(0) ELSE FAdd(DirectSum(d, lo, hi - 1), d[hi])

C11_EmaRecurrence ==
    Returned("EMA") =>
        LET p     == args.period
            alpha == FDiv(R(2), R(p + 1))
        IN  /\ out[1][p - 1] = FDiv(DirectSum(data, 0, p - 1), R(p))
            /\ \A i \in p..(Len0(data) - 1) :
                  out[1][i] = FAdd(FMul(alpha, data[i]),
                                   FMul(FSub(R(1), alpha), out[1][i - 1]))
            /\ (data = ExampleSeries /\ p = 3) =>
                  (out[1][2] = R(2) /\ out[1][3] = R(3) /\ out[1][4] = R(4))

\* the documented scenario EMA([1,2,3,4,5], 3)
C11_Witness ==
    /\ Returned("EMA")
    /\ data = ExampleSeries
    /\ args.period = 3
    /\ out[1][3] = R(3)

\* the trailing window data[i-period+1..i] holds one value only
ConstantWindow(d, period, i) == \A j \in (i - period + 1)..i : d[j] = d[i]

RECURSIVE DirectDot(_, _, _, _)
DirectDot(f, g, lo, hi) ==
    IF hi < lo THEN R(0) ELSE FAdd(DirectDot(f, g, lo, hi - 1), FMul(f[hi], g[hi]))

\* C13 as stated: for every index i >= period-1, VWMA[i] equals (sum of
\* price*volume) / (sum of volume) over the trailing window whenever that
\* volume sum is not exactly zero, and the raw price data[i] only when the
\* volume sum is exactly zero.
C13_VwmaFallbackOnZero ==
    Returned("VWMA") =>
        \A i \in (args.period - 1)..(Len0(data) - 1) :
            LET lo  == i - args.period + 1
                s_v == DirectSum(volume, lo, i)
            IN  out[1][i] = IF s_v # R(0)
                            THEN FDiv(DirectDot(data, volume, lo, i), s_v)
                            ELSE data[i]

\* C13 amended: VWMA[i] equals (sum of price*volume) / (sum of volume) over
\* the trailing window whenever that volume sum is positive, and the raw price
\* data[i] whenever the volume sum is zero or negative.
C13_VwmaFallbackOnNonPositive ==
    Returned("VWMA") =>
        \A i \in (args.period - 1)..(Len0(data) - 1) :
            LET lo  == i - args.period + 1
                s_v == DirectSum(volume, lo, i)
            IN  out[1][i] = IF FGt(s_v, R(0))
                            THEN FDiv(DirectDot(data, volume, lo, i), s_v)
                            ELSE data[i]

\* a window with a negative volume sum whose ratio differs from the raw price
C13_Witness ==
    /\ Returned("VWMA")
    /\ \E i \in (args.period - 1)..(Len0(data) - 1) :
          LET lo  == i - args.period + 1
              s_v == DirectSum(volume, lo, i)
          IN  /\ FLt(s_v, R(0))
              /\ FDiv(DirectDot(data, volume, lo, i), s_v) # data[i]
              /\ out[1][i] = data[i]

\* the close series a second run may be given in place of close: close with
\* one sample replaced, or with every sample replaced, by a value no bar has
OtherCloses ==
    {[i \in DOMAIN close |-> IF i \in S THEN R(5) ELSE close[i]] :
        S \in {{j} : j \in DOMAIN close} \cup {DOMAIN close}}

\* C14: Ichimoku's Senkou Span A and B, and Tenkan-sen and Kijun-sen, do not
\* depend on close: a run with the same high, low and parameters and any other
\* close series returns the same four series.
C14_SpansIgnoreClose ==
    Returned("Ichimoku") =>
        \A c2 \in OtherCloses :
            LET r2 == Ichimoku_calculate(high, low, c2, args.tenkan_period,
                                         args.kijun_period, args.senkou_b_period,
                                         args.displacement)
            IN  /\ r2.err = "none"
                /\ \A k \in 1..4 : r2.out[k] = out[k]

\* an Ichimoku run with defined spans whose close differs from its low
C14_Witness ==
    /\ Returned("Ichimoku")
    /\ \E i \in DOMAIN close : close[i] # low[i]
    /\ ~IsNaN(out[3][InputLen - 1])
    /\ ~IsNaN(out[4][InputLen - 1])

\* max and min of a[lo..hi] taken directly
DirectMax(a, lo, hi) == CHOOSE x \in {a[j] : j \in lo..hi} : \A j \in lo..hi : FLe(a[j], x)

DirectMin(a, lo, hi) == CHOOSE x \in {a[j] : j \in lo..hi} : \A j \in lo..hi : FLe(x, a[j])

\* C15: for Ichimoku with displacement d > 0, Senkou Span A at index k equals
\* (Tenkan[k-d] + Kijun[k-d]) / 2 for max(tenkan_p, kijun_p)-1+d <= k < n and
\* is undefined below; Senkou Span B at index k equals (max high + min low)/2
\* over the senkou_b_p window ending at k-d for senkou_b_p-1+d <= k < n and is
\* undefined below; values whose target index is >= n are dropped.
C15_SpansShifted ==
    Returned("Ichimoku") =>
        LET d  == args.displacement
            n  == InputLen
            fa == Max2(args.tenkan_period, args.kijun_period) - 1 + d
            fb == args.senkou_b_period - 1 + d
        IN  /\ DOMAIN out[3] = 0..(n - 1) /\ DOMAIN out[4] = 0..(n - 1)
            /\ \A k \in 0..(n - 1) :
                  /\ out[3][k] = IF k >= fa
                                 THEN FDiv(FAdd(out[1][k - d], out[2][k - d]), R(2))
                                 ELSE NaN
                  /\ out[4][k] = IF k >= fb
                                 THEN FDiv(FAdd(DirectMax(high, k - d - args.senkou_b_period + 1, k - d),
                                                DirectMin(low, k - d - args.senkou_b_period + 1, k - d)),
                                           R(2))
                                 ELSE NaN

\* spans that are defined at the end and differ from the unshifted values
C15_Witness ==
    /\ Returned("Ichimoku")
    /\ InputLen > args.displacement
    /\ ~IsNaN(out[3][InputLen - 1])
    /\ ~IsNaN(out[4][InputLen - 1])
    /\ out[3][InputLen - 1] # FDiv(FAdd(out[1][InputLen - 1], out[2][InputLen - 1]), R(2))

\* C16: for Ichimoku with 0 < displacement d < n, chikou[d:] = close[:-d], and
\* both the first d and the last d positions of the Chikou output are
\* undefined.
C16_ChikouBothEndsUndefined ==
    (Returned("Ichimoku") /\ 0 < args.displacement /\ args.displacement < InputLen) =>
        LET d == args.displacement
            n == InputLen
        IN  /\ \A i \in d..(n - 1) : out[5][i] = close[i - d]
            /\ \A i \in 0..(d - 1) : IsNaN(out[5][i])
            /\ \A i \in (n - d)..(n - 1) : IsNaN(out[5][i])

\* the error a calculate of trend.py raises for a parameter it rejects itself
\* (`raise ValueError`), the InvalidParameterError of the error taxonomy
ParameterError == "ValueError"

\* the last call's kernel-specific parameter is one the kernel rejects
BadKernelParameter ==
    \/ kernel = "KAMA" /\ (\/ args.fast_period >= args.slow_period
                           \/ args.fast_period <= 0 \/ args.slow_period <= 0)
    \/ kernel = "Supertrend" /\ FLe(args.multiplier, R(0))
    \/ kernel = "ALMA" /\ (\/ FLt(args.offset, R(0)) \/ FGt(args.offset, R(1))
                           \/ FLe(args.sigma, R(0)))
    \/ kernel = "FRAMA" /\ args.period < 4

\* the last call's input and period pass the adapter's validation
InputAndPeriodValid ==
    /\ InputLen >= 1
    /\ kind = "bars" => (Len0(high) = Len0(low) /\ Len0(low) = Len0(close))
    /\ kind = "price_volume" => Len0(volume) = Len0(data)
    /\ \A p \in PeriodArgs : 1 <= p /\ p <= InputLen

\* C17: KAMA with fast_period >= slow_period or a non-positive one, Supertrend
\* with multiplier <= 0, ALMA with offset outside [0,1] or sigma <= 0 and FRAMA
\* with period < 4 are rejected with the parameter error before the kernel's
\* main loop runs: no result and no intermediate array is produced.
C17_BadParameterRejected ==
    (pc = "returned" /\ BadKernelParameter) =>
        /\ err # "none" /\ out = <<>> /\ loc = <<>>
        /\ InputAndPeriodValid => err = ParameterError

\* KAMA on a valid series and period, rejected for fast_period >= slow_period
C17_Witness ==
    /\ pc = "returned" /\ kernel = "KAMA"
    /\ InputAndPeriodValid
    /\ args.fast_period >= args.slow_period /\ args.slow_period > 0
    /\ err = ParameterError /\ out = <<>>

SeriesLens ==
    IF kind = "price_volume" THEN {Len0(data), Len0(volume)}
    ELSE {Len0(high), Len0(low), Len0(close)}

C20_BandsOnlyTighten ==
    Returned("Supertrend") =>
        \A i \in args.period..(InputLen - 1) :
            /\ IF FGt(close[i - 1], loc.final_upper[i - 1])
               THEN loc.final_upper[i] = loc.upper_band[i]
               ELSE FLe(loc.final_upper[i], loc.final_upper[i - 1])
            /\ IF FLt(close[i - 1], loc.final_lower[i - 1])
               THEN loc.final_lower[i] = loc.lower_band[i]
               ELSE FGe(loc.final_lower[i], loc.final_lower[i - 1])

\* a run in which the upper band tightens at one bar and is re-anchored above
\* its previous value after a breakout at another
C20_Witness ==
    /\ Returned("Supertrend")
    /\ \E i \in args.period..(InputLen - 1) :
          /\ FGt(close[i - 1], loc.final_upper[i - 1])
          /\ FGt(loc.final_upper[i], loc.final_upper[i - 1])
    /\ \E i \in args.period..(InputLen - 1) :
          /\ ~FGt(close[i - 1], loc.final_upper[i - 1])
          /\ FLt(loc.final_upper[i], loc.final_upper[i - 1])

\* C21: in Supertrend the seed index period-1 has direction +1 with
\* supertrend = finalUpper = upper[period-1] and finalLower = lower[period-1],
\* and at every index i >= period-1 the supertrend value equals finalUpper[i]
\* when direction[i] = +1 and finalLower[i] when direction[i] = -1.
C21_SupertrendFollowsDirection ==
    Returned("Supertrend") =>
        LET s == args.period - 1
        IN  /\ out[2][s] = R(1)
            /\ out[1][s] = loc.final_upper[s]
            /\ loc.final_upper[s] = loc.upper_band[s]
            /\ loc.final_lower[s] = loc.lower_band[s]
            /\ \A i \in s..(InputLen - 1) :
                  /\ out[2][i] \in {R(1), R(-1)}
                  /\ out[2][i] = R(1)  => out[1][i] = loc.final_upper[i]
                  /\ out[2][i] = R(-1) => out[1][i] = loc.final_lower[i]

\* a run seeded in an uptrend whose two bands differ and which later turns down
C21_Witness ==
    /\ Returned("Supertrend")
    /\ loc.final_upper[args.period - 1] # loc.final_lower[args.period - 1]
    /\ \E i \in args.period..(InputLen - 1) :
          /\ out[2][i] = R(-1)
          /\ loc.final_upper[i] # loc.final_lower[i]

\* floor(sqrt(p)) by its definition
FloorSqrt(p) == CHOOSE r \in 0..p : r * r <= p /\ (r + 1) * (r + 1) > p

\* the sum over j = 1..k of j * f[i - period + j]
RECURSIVE DirectWeighted(_, _, _, _)
DirectWeighted(f, period, i, k) ==
    IF k = 0 THEN R(0)
    ELSE FAdd(FMul(R(k), f[i - period + k]), DirectWeighted(f, period, i, k - 1))

\* the weighted mean of the period samples of f ending at i, f given on 0..i
DirectWma(f, period, i) ==
    FDiv(DirectWeighted(f, period, i, period), R((period * (period + 1)) \div 2))

\* 2*WMA(data, floor(p/2)) - WMA(data, p) at index j >= p-1
HmaDiff(p, j) ==
    FSub(FMul(R(2), DirectWma(data, p \div 2, j)), DirectWma(data, p, j))

\* C22: for HMA with period p >= 2 on an input of length n >= p + floor(sqrt(p))
\* - 1, the output is undefined exactly at the indices below (p-1) +
\* (floor(sqrt(p))-1) and defined at every later index, where it is the WMA over
\* floor(sqrt(p)) samples of 2*WMA(data, floor(p/2)) - WMA(data, p).
C22_HmaWarmup ==
    (/\ Returned("HMA") /\ args.period >= 2
     /\ InputLen >= args.period + FloorSqrt(args.period) - 1) =>
        LET p     == args.period
            sq    == FloorSqrt(p)
            first == (p - 1) + (sq - 1)
            diff  == [j \in (p - 1)..(InputLen - 1) |-> HmaDiff(p, j)]
        IN  /\ \A i \in 0..(first - 1) : IsNaN(out[1][i])
            /\ \A i \in first..(InputLen - 1) :
                  /\ ~IsNaN(out[1][i])
                  /\ out[1][i] = DirectWma(diff, sq, i)

\* HMA with period 4 (windows of 2, 4 and 2 samples) on five samples: the
\* first four values undefined, the last one defined
C22_Witness ==
    /\ Returned("HMA") /\ args.period = 4 /\ InputLen = 5
    /\ IsNaN(out[1][3]) /\ ~IsNaN(out[1][4])

\* C23: HMA.calculate accepts every period that passes validate_period: for
\* every period p with 1 <= p <= len(data), p = 1 included, it returns a result
\* series and raises no error.
C23_HmaAcceptsValidPeriod ==
    (/\ pc = "returned" /\ kernel = "HMA"
     /\ 1 <= args.period /\ args.period <= InputLen) =>
        (err = "none" /\ Len(out) = 1)

\* C25: for every index i >= period-1, WMA[i] equals the sum over j = 1..period
\* of j * data[i-period+j] divided by period*(period+1)/2: the most recent
\* sample carries weight period, the oldest of the window weight 1.
C25_WmaWeights ==
    Returned("WMA") =>
        LET p == args.period
        IN  /\ \A i \in (p - 1)..(InputLen - 1) : out[1][i] = DirectWma(data, p, i)
            /\ (p = 2 /\ InputLen >= 2 /\ data[0] = R(0) /\ data[1] = R(3)) => out[1][1] = R(2)

\* a WMA over a window whose oldest and most recent samples differ
C25_Witness ==
    /\ Returned("WMA") /\ args.period >= 2
    /\ data[InputLen - 1] # data[InputLen - args.period]
    /\ out[1][InputLen - 1] = DirectWma(data, args.period, InputLen - 1)

\* the largest of three numbers by its definition
Max3(x, y, z) == CHOOSE m \in {x, y, z} : FGe(m, x) /\ FGe(m, y) /\ FGe(m, z)

\* the true range of bar i as the claim states it
DirectTR(i) ==
    IF i = 0 THEN FSub(high[0], low[0])
    ELSE Max3(FSub(high[i], low[i]),
              FAbs(FSub(high[i], close[i - 1])),
              FAbs(FSub(low[i], close[i - 1])))

\* TR[0] + ... + TR[k]
RECURSIVE DirectTRSum(_)
DirectTRSum(k) == IF k < 0 THEN R(0) ELSE FAdd(DirectTR(k), DirectTRSum(k - 1))

\* C24: the ATR helper computes TR[0] = high[0]-low[0] and TR[i] = max(high[i]-
\* low[i], |high[i]-close[i-1]|, |low[i]-close[i-1]|) for i > 0; ATR is
\* undefined at indices 0..period-2, ATR[period-1] is the mean of
\* TR[0..period-1], ATR[i] = (ATR[i-1]*(period-1) + TR[i]) / period for every
\* i >= period, and ATR[i] >= 0 at every defined index whenever high[0] >= low[0].
C24_AtrWilder ==
    Returned("Supertrend") =>
        LET p == args.period
        IN  /\ \A i \in 0..(p - 2) : IsNaN(loc.atr[i])
            /\ loc.atr[p - 1] = FDiv(DirectTRSum(p - 1), R(p))
            /\ \A i \in p..(InputLen - 1) :
                  loc.atr[i] = FDiv(FAdd(FMul(loc.atr[i - 1], R(p - 1)), DirectTR(i)), R(p))
            /\ FGe(high[0], low[0]) =>
                  \A i \in (p - 1)..(InputLen - 1) : FGe(loc.atr[i], R(0))

\* a run past the seed in which a gap from the previous close, below the bar,
\* is the true range of a bar
C24_Witness ==
    /\ Returned("Supertrend")
    /\ InputLen > args.period /\ args.period >= 2
    /\ \E i \in 1..(InputLen - 1) :
          /\ FLt(high[i], close[i - 1])
          /\ DirectTR(i) = FSub(close[i - 1], low[i])
          /\ FGt(DirectTR(i), FSub(high[i], low[i]))
    /\ FGt(loc.atr[InputLen - 1], R(0))

\* the smallest and the largest of data[lo..hi]
DataMin(lo, hi) == CHOOSE x \in {data[j] : j \in lo..hi} : \A j \in lo..hi : FLe(x, data[j])

DataMax(lo, hi) == CHOOSE x \in {data[j] : j \in lo..hi} : \A j \in lo..hi : FGe(x, data[j])

\* a <= b for two defined numbers, compared by their integer parts and then by
\* the reciprocals of their fractional parts, without forming a product
RECURSIVE RatLe(_, _)
RatLe(a, b) ==
    LET qa == a[1] \div a[2]   ra == a[1] % a[2]
        qb == b[1] \div b[2]   rb == b[1] % b[2]
    IN  IF qa # qb THEN qa < qb
        ELSE IF ra = 0 THEN TRUE
        ELSE IF rb = 0 THEN FALSE
        ELSE RatLe(<<b[2], rb>>, <<a[2], ra>>)

\* x lies between a and b, the ends included
Between(x, a, b) ==
    /\ ~IsNaN(x) /\ ~IsNaN(a) /\ ~IsNaN(b)
    /\ (RatLe(a, x) /\ RatLe(x, b)) \/ (RatLe(b, x) /\ RatLe(x, a))

Poisoned(k) == [data EXCEPT ![k] = NaN]

\* C27: the EMA kernel never recovers from an undefined input sample: with an
\* undefined sample among the first period samples, every output index >=
\* period-1 is undefined; with an undefined sample at index k >= period, every
\* output index >= k is undefined; hence an EMA applied to another EMA's
\* output with period >= 2 is undefined at every index.
C27_EmaNeverRecovers ==
    Returned("EMA") =>
        LET p == args.period
            n == InputLen
        IN  /\ \A k \in 0..(n - 1) :
                  LET r == EMA_calculate(Poisoned(k), p)
                  IN  /\ r.err = "none"
                      /\ \A i \in 0..(n - 1) :
                            (i >= p - 1 /\ (k < p \/ i >= k)) => IsNaN(r.out[1][i])
            /\ p >= 2 =>
                  LET r2 == EMA_calculate(out[1], p)
                  IN  r2.err = "none" /\ \A i \in 0..(n - 1) : IsNaN(r2.out[1][i])

\* an EMA with defined values past its seed, which an undefined sample in the
\* seed window takes away
C27_Witness ==
    /\ Returned("EMA") /\ args.period >= 2 /\ InputLen > args.period
    /\ ~IsNaN(out[1][InputLen - 1])
    /\ IsNaN(EMA_calculate(Poisoned(0), args.period).out[1][InputLen - 1])

====
